---- MODULE Spec2Model ----
(***************************************************************************)
(* Payment-submission workflow of khairi-payment-v2-backend.               *)
(*                                                                         *)
(* Three service variants are modelled:                                    *)
(*   "pg"     src/index.js lines 1-363   (S3 + PostgreSQL, Resend error    *)
(*                                        value is re-thrown)              *)
(*   "pg0"    src/unnamed/part_000       (S3 + PostgreSQL, Resend result   *)
(*                                        is not inspected)                *)
(*   "sqlite" src/index.js lines 365-653 (multer diskStorage + SQLite)     *)
(*                                                                         *)
(* JavaScript runs each handler to its next await / callback without       *)
(* interleaving, so one action is the code between two suspension points.  *)
(***************************************************************************)
EXTENDS Integers, Sequences, FiniteSets, TLC

VARIABLES
    variant,    \* which of the three service variants is running
    now,        \* the wall clock read by Date.now() / CURRENT_TIMESTAMP
    req,        \* per submission: the request, the handler's locals, its position
    objects,    \* Object Store: object key -> stored bytes
    payments,   \* Record Store: the rows of table payments, in insertion order
    nextId,     \* Record Store: next value of the SERIAL / AUTOINCREMENT id
    emails,     \* Notifier: the notifications delivered so far
    listing,    \* the response to the latest GET /api/payments, <<>> before any
    dbConnectionRetries,   \* connectDb: consecutive failed connection attempts
    connectPc,  \* connectDb: "connecting", "creating", "waiting", "ready", "exited"
    attempts,   \* connectDb: how many times it has been entered
    timers      \* the delays of the pending setTimeout(connectDb, ..) timers

vars == <<variant, now, req, objects, payments, nextId, emails,
          listing, dbConnectionRetries, connectPc, attempts, timers>>

\* what the handlers of POST /api/upload-payment never touch
startup == <<dbConnectionRetries, connectPc, attempts, timers>>

----------------------------------------------------------------------------
(* Bounds of the model *)

NSub == 2          \* submissions handled (concurrently)
MaxTime == 1       \* the clock takes the values 0..MaxTime
NTokens == 1       \* Math.random() yields one of the tokens 0..NTokens

Subs == 1..NSub
Tokens == 0..NTokens

----------------------------------------------------------------------------
(* Program constants and inputs *)

Variants == {"pg", "pg0", "sqlite"}

IsPg == variant \in {"pg", "pg0"}

fileSize == 5 * 1024 * 1024

allowedTypes == {"image/jpeg", "image/png", "image/webp"}

S3_ENDPOINT == "https://s3.example"
S3_BUCKET == "bucket"

\* A text field of the multipart body that was not sent is undefined in req.body
Undefined == "undefined"

Fields == {"name", "phone_number", "payment_method", "reason"}

CompleteBody ==
    [name |-> "Sari", phone_number |-> "0812xxxx",
     payment_method |-> "bank_transfer", reason |-> "order #4"]

Bodies ==
    {CompleteBody} \cup
    {[CompleteBody EXCEPT ![f] = v] : f \in Fields, v \in {Undefined, ""}}

\* Original file names, as sequences of characters: with an upper-case
\* extension, without a ".", and with an extension that is not URL-safe
OrigNames == {<<"a", ".", "P">>, <<"a">>, <<"a", ".", "#">>}

MimeTypes == {"image/png", "application/pdf"}

FileSizes == {fileSize, fileSize + 1}

\* req.file is <<>> (undefined) or <<f>>; the bytes of submission s are tagged s
File(n, m, z, s) == <<[originalname |-> n, mimetype |-> m, size |-> z, buffer |-> s]>>

FilesOf(s) ==
    {<<>>} \cup {File(n, m, z, s) : n \in OrigNames, m \in MimeTypes, z \in FileSizes}

GoodFile(s) == File(<<"a", ".", "P">>, "image/png", fileSize, s)

\* The requests submission s may make: every body with a good file and with
\* no file, and every file with a complete body
Inputs(s) ==
    {[body |-> b, file |-> f] : b \in Bodies, f \in {GoodFile(s), <<>>}} \cup
    {[body |-> CompleteBody, file |-> f] : f \in FilesOf(s)}

----------------------------------------------------------------------------
(* Object Key Generator and URLs *)

RECURSIVE LastDot(_, _)
\* index of the last "." among the first i characters of n, 0 when there is none
LastDot(n, i) ==
    IF i = 0 THEN 0
    ELSE IF n[i] = "." THEN i
    ELSE LastDot(n, i - 1)

\* what follows the last ".", nothing when the name holds no "."
SplitPop_EmptyWithoutDot(n) ==
    IF LastDot(n, Len(n)) = 0 THEN <<>>
    ELSE SubSeq(n, LastDot(n, Len(n)) + 1, Len(n))

\* originalname.split('.').pop(): what follows the last ".", the whole name
\* when it holds no "."
SplitPop(n) == SubSeq(n, LastDot(n, Len(n)) + 1, Len(n))

\* path.extname(originalname): from the last "." on; empty when there is no
\* ".", when the only "." leads the name, or for the name ".."
ExtName(n) ==
    LET d == LastDot(n, Len(n)) IN
    IF d <= 1 \/ n = <<".", ".">> THEN <<>> ELSE SubSeq(n, d, Len(n))

\* the key without its random token
S3FileName_NoToken(t, token, n) ==
    <<"proof_", ToString(t), ".">> \o SplitPop(n)

\* `proof_${Date.now()}_${Math.random().toString(36).substring(2)}.${ext}`
S3FileName(t, token, n) ==
    <<"proof_", ToString(t), "_", ToString(token), ".">> \o SplitPop(n)

\* `proof_${Date.now() + '-' + Math.round(Math.random() * 1e9)}${path.extname(..)}`
DiskFileName(t, token, n) ==
    <<"proof_", ToString(t), "-", ToString(token)>> \o ExtName(n)

\* `${S3_ENDPOINT}/${S3_BUCKET}/${fileName}`
S3FileUrl(fileName) == <<S3_ENDPOINT, "/", S3_BUCKET, "/">> \o fileName

\* `${req.protocol}://${req.get('host')}/uploads/${req.file.filename}`
DiskProofUrl(fileName) == <<"http", "://", "host", "/uploads/">> \o fileName

RECURSIVE PathEnd(_, _)
\* index of the last character of the path of a URL, looking from index i on:
\* the path ends before the first "?" (query) or "#" (fragment)
PathEnd(url, i) ==
    IF i > Len(url) THEN Len(url)
    ELSE IF url[i] \in {"?", "#"} THEN i - 1
    ELSE PathEnd(url, i + 1)

\* The object a URL resolves to: a GET of the URL sends its path only, which
\* is /bucket/key on the path-style S3 endpoint and /uploads/file under
\* express.static for the disk variant
UrlKey(url) == SubSeq(url, 5, PathEnd(url, 5))

\* PutObject / the disk write stream: the key is created or overwritten
PutObject(store, key, bytes) ==
    [k \in DOMAIN store \cup {key} |-> IF k = key THEN bytes ELSE store[k]]

----------------------------------------------------------------------------
(* Intake: multer *)

\* the limit taken as the first size that is refused
OverLimit_Inclusive(f) == f.size >= fileSize

\* limits.fileSize: busboy truncates and multer aborts with LIMIT_FILE_SIZE
\* when a file holds more than fileSize bytes
OverLimit(f) == f.size > fileSize

\* fileFilter of the SQLite variant
FileFilter(f) == f.mimetype \in allowedTypes

----------------------------------------------------------------------------
(* Per submission state *)

IdleReq ==
    [pc |-> "idle",
     body |-> [f \in Fields |-> Undefined],
     file |-> <<>>,
     fileName |-> <<>>,      \* the generated object key
     fileUrl |-> <<>>,       \* fileUrl / proofUrl
     keyTime |-> 0,          \* the Date.now() read for the object key
     keyToken |-> 0,         \* the Math.random() drawn for the object key
     paymentId |-> 0,        \* result.rows[0].id / this.lastID
     putCalls |-> 0, putResult |-> "none",
     insertCalls |-> 0, insertResult |-> "none",
     notifyCalls |-> 0, notifyResult |-> "none",
     res |-> <<>>]           \* the HTTP responses sent, in order

\* res.status(status).json(body), after which the handler returns
Respond(r, status, body) ==
    [r EXCEPT !.pc = "done", !.res = Append(@, [status |-> status, body |-> body])]

\* Express's default error handler, reached through next(err) from multer
DefaultErrorHandler(r, msg) == Respond(r, 500, [error |-> msg])

Init ==
    /\ variant \in Variants
    /\ now = 0
    /\ req = [s \in Subs |-> IdleReq]
    /\ objects = <<>>
    /\ payments = <<>>
    /\ nextId = 1
    /\ emails = <<>>
    /\ listing = <<>>
    \* the service is serving: connectDb succeeded at its first attempt (the
    \* SQLite variant has no connectDb and opens its database synchronously)
    /\ dbConnectionRetries = 0
    /\ connectPc = "ready"
    /\ attempts = IF IsPg THEN 1 ELSE 0
    /\ timers = <<>>

----------------------------------------------------------------------------
(* Record Store *)

\* A column declared TEXT NOT NULL receives NULL when the field is undefined
HasNull(body) == \E f \in Fields : body[f] = Undefined

\* db holds a client whose connection is established and whose table exists
Queryable == connectPc = "ready"

\* How an INSERT can end: a NOT NULL violation when a field is NULL, otherwise
\* success; the store can fail (connection lost) either way, and it can only
\* fail while connectDb has not yet produced a connected client
InsertOutcomes(body) ==
    IF ~Queryable THEN {"error"}
    ELSE IF HasNull(body) THEN {"constraint", "error"}
    ELSE {"ok", "error"}

\* the object key stored in place of the URL
NewRow_KeyAsUrl(r, id, t) ==
    [id |-> id,
     name |-> r.body.name,
     phone_number |-> r.body.phone_number,
     payment_method |-> r.body.payment_method,
     reason |-> r.body.reason,
     proof_url |-> r.fileName,
     created_at |-> t]

\* The row INSERT INTO payments (...) VALUES (...) creates
NewRow(r, id, t) ==
    [id |-> id,
     name |-> r.body.name,
     phone_number |-> r.body.phone_number,
     payment_method |-> r.body.payment_method,
     reason |-> r.body.reason,
     proof_url |-> r.fileUrl,
     created_at |-> t]

\* the sequence is never advanced
IdAfterInsert_NoAdvance(outcome) == nextId

\* PostgreSQL draws nextval() for the SERIAL default before it checks the
\* constraints, so a rejected row consumes an id; SQLite rolls the counter back
IdAfterInsert(outcome) ==
    IF outcome = "ok" \/ (outcome = "constraint" /\ IsPg)
    THEN nextId + 1
    ELSE nextId

----------------------------------------------------------------------------
(* Submission Orchestrator: the pieces of the handler *)

\* the id answered is the id the store assigned last, to whichever submission
SuccessResponse_LastId(r) ==
    Respond(r, 200,
        [success |-> TRUE,
         data |-> [id |-> nextId - 1,
                   name |-> r.body.name,
                   phone_number |-> r.body.phone_number,
                   payment_method |-> r.body.payment_method,
                   reason |-> r.body.reason,
                   proof_url |-> r.fileUrl]])

\* the object key answered in place of the URL
SuccessResponse_KeyAsUrl(r) ==
    Respond(r, 200,
        [success |-> TRUE,
         data |-> [id |-> r.paymentId,
                   name |-> r.body.name,
                   phone_number |-> r.body.phone_number,
                   payment_method |-> r.body.payment_method,
                   reason |-> r.body.reason,
                   proof_url |-> r.fileName]])

\* res.json({ success: true, data: {...} }) / res.status(200).json(...)
SuccessResponse(r) ==
    Respond(r, 200,
        [success |-> TRUE,
         data |-> [id |-> r.paymentId,
                   name |-> r.body.name,
                   phone_number |-> r.body.phone_number,
                   payment_method |-> r.body.payment_method,
                   reason |-> r.body.reason,
                   proof_url |-> r.fileUrl]])

\* res.json({ error: .. }) without .status(400) answers 200
NoFileResponse_NoStatus(r) == Respond(r, 200, [error |-> "No file uploaded"])

\* if (!req.file) return res.status(400).json({ error: 'No file uploaded' })
NoFileResponse(r) == Respond(r, 400, [error |-> "No file uploaded"])

\* catch (err) of the handler: res.status(500).json({ error: 'Server error', .. })
CatchResponse(r, msg) == Respond(r, 500, [error |-> "Server error", detail |-> msg])

\* the rejection of s3.send is swallowed and the handler carries on
OnPutFailed_Continue(r) ==
    [r EXCEPT !.putResult = "fail", !.fileUrl = S3FileUrl(r.fileName),
              !.insertCalls = @ + 1, !.pc = "insert"]

\* s3.send rejected: control passes to the catch block
OnPutFailed(r) == CatchResponse([r EXCEPT !.putResult = "fail"], "s3.send failed")

\* the disk write stream failed: multer calls next(err), the handler never runs
OnDiskWriteFailed(r) ==
    DefaultErrorHandler([r EXCEPT !.putResult = "fail"], "write failed")

\* the insert error is logged and the handler returns without answering
OnInsertFailed_Silent(r) == [r EXCEPT !.insertResult = "fail", !.pc = "done"]

\* the insert error is logged and the handler goes on to notify
OnInsertFailed_Continue(r) ==
    [r EXCEPT !.insertResult = "fail", !.notifyCalls = @ + 1, !.pc = "notify"]

\* db.query rejected (catch block) / stmt.run called back with err
OnInsertFailed(r) ==
    LET r1 == [r EXCEPT !.insertResult = "fail"] IN
    IF IsPg THEN CatchResponse(r1, "db.query failed")
    ELSE Respond(r1, 500, [error |-> "Failed to save data."])

\* the notification is started but not awaited
OnInsertOk_NoAwait(r, id) ==
    SuccessResponse([r EXCEPT !.insertResult = "ok", !.paymentId = id,
                              !.notifyCalls = @ + 1])

\* const paymentId = result.rows[0].id / this.lastID, then
\* sendPaymentNotificationEmail({...}) is called and awaited
OnInsertOk(r, id) ==
    [r EXCEPT !.insertResult = "ok", !.paymentId = id,
              !.notifyCalls = @ + 1, !.pc = "notify"]

\* the message built before the id is known
Notification_WithoutId(r) ==
    [id |-> 0,
     name |-> r.body.name,
     phone_number |-> r.body.phone_number,
     payment_method |-> r.body.payment_method,
     reason |-> r.body.reason,
     proofUrl |-> r.fileUrl]

\* the message handed to resend.emails.send
Notification(r) ==
    [id |-> r.paymentId,
     name |-> r.body.name,
     phone_number |-> r.body.phone_number,
     payment_method |-> r.body.payment_method,
     reason |-> r.body.reason,
     proofUrl |-> r.fileUrl]

\* How resend.emails.send can end: delivered, rejected promise, or a resolved
\* { error } value
NotifyOutcomes == {"sent", "throws", "error"}

\* sendPaymentNotificationEmail throws on a rejected promise; on an { error }
\* value it throws in "pg" and "sqlite" ("if (error) throw error") and returns
\* normally in "pg0"
EmailThrows(outcome) ==
    \/ outcome = "throws"
    \/ outcome = "error" /\ variant # "pg0"

\* without the inner try/catch a throwing notifier reaches the outer catch
AfterNotify_Propagate(r, outcome) ==
    LET r1 == [r EXCEPT !.notifyResult = outcome] IN
    IF EmailThrows(outcome)
    THEN CatchResponse(r1, "email failed")
    ELSE SuccessResponse(r1)

\* try { await sendPaymentNotificationEmail(..) } catch (e) { console.log(..) }
\* followed by the success response
AfterNotify(r, outcome) ==
    LET r1 == [r EXCEPT !.notifyResult = outcome] IN
    IF EmailThrows(outcome)
    THEN SuccessResponse(r1)     \* caught and logged, execution continues
    ELSE SuccessResponse(r1)

----------------------------------------------------------------------------
(* Actions *)

\* Date.now() / CURRENT_TIMESTAMP: time has passed by any amount since the
\* clock was last read, and never runs backwards
ReadClock(t) ==
    /\ t \in now..MaxTime
    /\ now' = t

\* upload.single('proof') of the S3 variants: memoryStorage buffers the file
MemoryStorage(s, r) ==
    /\ req' = [req EXCEPT ![s] =
                 IF r.file # <<>> /\ OverLimit(r.file[1])
                 THEN DefaultErrorHandler(r, "File too large")
                 ELSE [r EXCEPT !.pc = "handler"]]
    /\ UNCHANGED now

\* upload.single('proof') of the SQLite variant: fileFilter, then diskStorage
\* names the file and starts writing it
DiskStorage(s, r) ==
    IF r.file = <<>>
    THEN /\ req' = [req EXCEPT ![s] = [r EXCEPT !.pc = "handler"]]
         /\ UNCHANGED now
    ELSE IF ~FileFilter(r.file[1])
    THEN /\ req' = [req EXCEPT ![s] = DefaultErrorHandler(r, "Invalid file type.")]
         /\ UNCHANGED now
    ELSE \E t \in 0..MaxTime, token \in Tokens :
            /\ ReadClock(t)
            /\ req' = [req EXCEPT ![s] =
                         [r EXCEPT
                            !.fileName = DiskFileName(t, token, r.file[1].originalname),
                            !.keyTime = t, !.keyToken = token,
                            !.putCalls = @ + 1,
                            !.pc = "put"]]

\* The request in arrives and runs through the multer middleware
Multer(s, in) ==
    /\ req[s].pc = "idle"
    /\ LET r == [req[s] EXCEPT !.body = in.body, !.file = in.file] IN
       IF IsPg THEN MemoryStorage(s, r) ELSE DiskStorage(s, r)
    /\ UNCHANGED <<variant, objects, payments, nextId, emails, listing, startup>>

UploadSingle(s) == \E in \in Inputs(s) : Multer(s, in)

\* SQLite variant: the disk write ends. Over the size limit multer removes the
\* partial file and fails with LIMIT_FILE_SIZE; the write itself can fail;
\* otherwise the file is in place and the handler is called
DiskWriteReturns(s) ==
    LET r == req[s] IN
    /\ ~IsPg
    /\ r.pc = "put"
    /\ \/ /\ OverLimit(r.file[1])
          /\ req' = [req EXCEPT ![s] =
                       DefaultErrorHandler([r EXCEPT !.putResult = "aborted"],
                                           "File too large")]
          /\ UNCHANGED objects
       \/ /\ ~OverLimit(r.file[1])
          /\ req' = [req EXCEPT ![s] = OnDiskWriteFailed(r)]
          /\ UNCHANGED objects
       \/ /\ ~OverLimit(r.file[1])
          /\ objects' = PutObject(objects, r.fileName, r.file[1].buffer)
          /\ req' = [req EXCEPT ![s] = [r EXCEPT !.putResult = "ok", !.pc = "handler"]]
    /\ UNCHANGED <<variant, now, payments, nextId, emails, listing, startup>>

\* The route handler up to its first suspension
\* S3 variants: no-file check, fileName, s3.send(new PutObjectCommand(..))
S3UploadPayment(s, r) ==
    IF r.file = <<>>
    THEN /\ req' = [req EXCEPT ![s] = NoFileResponse(r)]
         /\ UNCHANGED now
    ELSE \E t \in 0..MaxTime, token \in Tokens :
            /\ ReadClock(t)
            /\ req' = [req EXCEPT ![s] =
                         [r EXCEPT
                            !.fileName = S3FileName(t, token, r.file[1].originalname),
                            !.keyTime = t, !.keyToken = token,
                            !.putCalls = @ + 1,
                            !.pc = "put"]]

\* SQLite variant: no-file check, proofUrl, stmt.run([...], callback)
SqliteUploadPayment(s, r) ==
    /\ req' = [req EXCEPT ![s] =
                 IF r.file = <<>> THEN NoFileResponse(r)
                 ELSE [r EXCEPT
                         !.fileUrl = DiskProofUrl(r.fileName),
                         !.insertCalls = @ + 1,
                         !.pc = "insert"]]
    /\ UNCHANGED now

UploadPayment(s) ==
    /\ req[s].pc = "handler"
    /\ IF IsPg THEN S3UploadPayment(s, req[s]) ELSE SqliteUploadPayment(s, req[s])
    /\ UNCHANGED <<variant, objects, payments, nextId, emails, listing, startup>>

\* S3 variants: await s3.send(..) ends; on success fileUrl is built and
\* db.query(insertQuery, [...]) is called
S3SendReturns(s) ==
    LET r == req[s] IN
    /\ IsPg
    /\ r.pc = "put"
    /\ \/ /\ req' = [req EXCEPT ![s] = OnPutFailed(r)]
          /\ UNCHANGED objects
       \/ /\ objects' = PutObject(objects, r.fileName, r.file[1].buffer)
          /\ req' = [req EXCEPT ![s] =
                       [r EXCEPT !.putResult = "ok",
                                 !.fileUrl = S3FileUrl(r.fileName),
                                 !.insertCalls = @ + 1,
                                 !.pc = "insert"]]
    /\ UNCHANGED <<variant, now, payments, nextId, emails, listing, startup>>

\* The INSERT ends: await db.query(..) / the stmt.run callback
InsertReturns(s) ==
    LET r == req[s] IN
    /\ r.pc = "insert"
    /\ \E outcome \in InsertOutcomes(r.body) :
         /\ nextId' = IdAfterInsert(outcome)
         /\ IF outcome = "ok"
            THEN \E t \in 0..MaxTime :
                    /\ ReadClock(t)
                    /\ payments' = Append(payments, NewRow(r, nextId, t))
                    /\ req' = [req EXCEPT ![s] = OnInsertOk(r, nextId)]
            ELSE /\ UNCHANGED <<now, payments>>
                 /\ req' = [req EXCEPT ![s] = OnInsertFailed(r)]
    /\ UNCHANGED <<variant, objects, emails, listing, startup>>

\* await sendPaymentNotificationEmail(..) ends, the response is sent
ResendReturns(s) ==
    LET r == req[s] IN
    /\ r.pc = "notify"
    /\ \E outcome \in NotifyOutcomes :
         /\ emails' = IF outcome = "sent" THEN Append(emails, Notification(r))
                      ELSE emails
         /\ req' = [req EXCEPT ![s] = AfterNotify(r, outcome)]
    /\ UNCHANGED <<variant, now, objects, payments, nextId, listing, startup>>

Next ==
    \/ \E s \in Subs : UploadSingle(s)
    \/ \E s \in Subs : DiskWriteReturns(s)
    \/ \E s \in Subs : UploadPayment(s)
    \/ \E s \in Subs : S3SendReturns(s)
    \/ \E s \in Subs : InsertReturns(s)
    \/ \E s \in Subs : ResendReturns(s)

Spec == Init /\ [][Next]_vars

----------------------------------------------------------------------------
(* GET /api/payments *)

\* the rows ordered by created_at ASC
Orderings_Ascending(rows) ==
    LET n == Len(rows) IN
    {p \in [1..n -> 1..n] :
        /\ \A i, j \in 1..n : i # j => p[i] # p[j]
        /\ \A i, j \in 1..n :
              i < j => rows[p[i]].created_at <= rows[p[j]].created_at}

\* the orders in which n rows can be returned by ORDER BY created_at DESC:
\* rows with equal created_at come in an order the store is free to choose
Orderings(rows) ==
    LET n == Len(rows) IN
    {p \in [1..n -> 1..n] :
        /\ \A i, j \in 1..n : i # j => p[i] # p[j]
        /\ \A i, j \in 1..n :
              i < j => rows[p[i]].created_at >= rows[p[j]].created_at}

\* the result sets SELECT * FROM payments ORDER BY created_at DESC can yield
SelectAll(rows) ==
    {[i \in 1..Len(rows) |-> rows[p[i]]] : p \in Orderings(rows)}

\* the query fails whenever the store does, and always while db is not connected
SelectOutcomes == IF Queryable THEN {"ok", "error"} ELSE {"error"}

\* catch (err): res.status(500).json({ error: 'DB error', detail: err.message })
\* if (err) return res.status(500).json({ error: 'Failed to fetch payments.' })
ListingError(rows) ==
    IF IsPg
    THEN [status |-> 500, body |-> [error |-> "DB error", detail |-> "query failed"]]
    ELSE [status |-> 500, body |-> [error |-> "Failed to fetch payments."]]

\* only the newest row is returned
ListingOk_Newest(rows) ==
    [status |-> 200,
     body |-> [success |-> TRUE,
               data |-> IF rows = <<>> THEN rows ELSE <<rows[1]>>]]

\* res.json({ success: true, data: result.rows }) / res.status(200).json(..)
ListingOk(rows) == [status |-> 200, body |-> [success |-> TRUE, data |-> rows]]

\* The whole handler: the query is evaluated on the table as it is now and
\* its result, or its failure, is answered
GetPayments ==
    /\ \E outcome \in SelectOutcomes :
         IF outcome = "ok"
         THEN \E rows \in SelectAll(payments) : listing' = <<ListingOk(rows)>>
         ELSE listing' = <<ListingError(payments)>>
    /\ UNCHANGED <<variant, now, req, objects, payments, nextId, emails, startup>>

\* The requests sent while listings are taken: a complete submission, one
\* without a file, one with a file over the limit, one lacking a field
LightInputs(s) ==
    {[body |-> CompleteBody, file |-> GoodFile(s)],
     [body |-> CompleteBody, file |-> <<>>],
     [body |-> CompleteBody,
      file |-> File(<<"a", ".", "P">>, "image/png", fileSize + 1, s)],
     [body |-> [CompleteBody EXCEPT !.name = Undefined], file |-> GoodFile(s)]}

UploadSingleLight(s) == \E in \in LightInputs(s) : Multer(s, in)

NextServing ==
    \/ \E s \in Subs : UploadSingleLight(s)
    \/ \E s \in Subs : DiskWriteReturns(s)
    \/ \E s \in Subs : UploadPayment(s)
    \/ \E s \in Subs : S3SendReturns(s)
    \/ \E s \in Subs : InsertReturns(s)
    \/ \E s \in Subs : ResendReturns(s)
    \/ GetPayments

\* Every call a handler awaits returns, and a request that passed multer is
\* handed to the route handler
HandlerStep(s) ==
    \/ DiskWriteReturns(s)
    \/ UploadPayment(s)
    \/ S3SendReturns(s)
    \/ InsertReturns(s)
    \/ ResendReturns(s)

SpecServing ==
    Init /\ [][NextServing]_vars /\ \A s \in Subs : WF_vars(HandlerStep(s))

----------------------------------------------------------------------------
(* connectDb: the startup connection routine of the PostgreSQL variants *)

maxDbRetries == 5

\* the delay, in milliseconds, given to setTimeout
retryDelay == 5000

\* module load: connectDb() has been called once and awaits db.connect()
InitStartup ==
    /\ variant \in {"pg", "pg0"}
    /\ now = 0
    /\ req = [s \in Subs |-> IdleReq]
    /\ objects = <<>>
    /\ payments = <<>>
    /\ nextId = 1
    /\ emails = <<>>
    /\ listing = <<>>
    /\ dbConnectionRetries = 0
    /\ connectPc = "connecting"
    /\ attempts = 1
    /\ timers = <<>>

\* the attempt is repeated after the last allowed failure too
ShouldRetry_Inclusive(n) == n <= maxDbRetries

\* if (dbConnectionRetries < maxDbRetries)
ShouldRetry(n) == n < maxDbRetries

\* catch (err): dbConnectionRetries++, then setTimeout(connectDb, 5000) or
\* process.exit(1)
OnConnectError ==
    /\ dbConnectionRetries' = dbConnectionRetries + 1
    /\ IF ShouldRetry(dbConnectionRetries + 1)
       THEN connectPc' = "waiting" /\ timers' = Append(timers, retryDelay)
       ELSE connectPc' = "exited" /\ timers' = <<>>
    /\ UNCHANGED attempts

\* await db.connect() ends: the CREATE TABLE query is sent, or the catch block runs
ConnectReturns ==
    /\ connectPc = "connecting"
    /\ \/ connectPc' = "creating" /\ UNCHANGED <<dbConnectionRetries, attempts, timers>>
       \/ OnConnectError
    /\ UNCHANGED <<variant, now, req, objects, payments, nextId, emails, listing>>

\* the counter keeps the failures counted before the success
CreateTableReturns_NoReset ==
    /\ connectPc = "creating"
    /\ \/ /\ connectPc' = "ready"
          /\ UNCHANGED <<dbConnectionRetries, attempts, timers>>
       \/ OnConnectError
    /\ UNCHANGED <<variant, now, req, objects, payments, nextId, emails, listing>>

\* await db.query(CREATE TABLE IF NOT EXISTS ..) ends: the counter is reset,
\* or the catch block runs
CreateTableReturns ==
    /\ connectPc = "creating"
    /\ \/ /\ dbConnectionRetries' = 0
          /\ connectPc' = "ready"
          /\ UNCHANGED <<attempts, timers>>
       \/ OnConnectError
    /\ UNCHANGED <<variant, now, req, objects, payments, nextId, emails, listing>>

\* the timer set by setTimeout(connectDb, 5000) fires: connectDb is entered
TimerFires ==
    /\ timers # <<>>
    /\ timers' = Tail(timers)
    /\ connectPc' = "connecting"
    /\ attempts' = attempts + 1
    /\ UNCHANGED dbConnectionRetries
    /\ UNCHANGED <<variant, now, req, objects, payments, nextId, emails, listing>>

\* the requests sent while the service starts
StartupInputs(s) ==
    {[body |-> CompleteBody, file |-> GoodFile(s)],
     [body |-> CompleteBody, file |-> <<>>]}

UploadSingleStartup(s) == \E in \in StartupInputs(s) : Multer(s, in)

\* app.listen does not wait for connectDb: requests are handled from module
\* load until process.exit
Serve ==
    /\ connectPc # "exited"
    /\ \/ \E s \in Subs : UploadSingleStartup(s)
       \/ \E s \in Subs : HandlerStep(s)
       \/ GetPayments

NextStartup ==
    \/ ConnectReturns
    \/ CreateTableReturns
    \/ TimerFires
    \/ Serve

\* db.connect() and the CREATE TABLE query return, and the timer fires
SpecStartup ==
    /\ InitStartup
    /\ [][NextStartup]_vars
    /\ WF_vars(ConnectReturns)
    /\ WF_vars(CreateTableReturns)
    /\ WF_vars(TimerFires)

----------------------------------------------------------------------------
(* Vocabulary of the properties *)

Is2xx(status) == status \in 200..299

Arrived(s) == req[s].pc # "idle"

Done(s) == req[s].pc = "done"

\* the submission has been answered with a failure
Failed(s) == Done(s) /\ Len(req[s].res) = 1 /\ ~Is2xx(req[s].res[1].status)

\* the submission has been answered with a success
Succeeded(s) == Done(s) /\ Len(req[s].res) = 1 /\ Is2xx(req[s].res[1].status)

\* the rows and notifications that carry the id assigned to submission s
RowsOf(s) == {i \in DOMAIN payments : payments[i].id = req[s].paymentId}

EmailsOf(s) == {i \in DOMAIN emails : emails[i].id = req[s].paymentId}

\* rows and notifications exist only for inserts and sends that succeeded
NoStrayRows ==
    /\ Len(payments) = Cardinality({u \in Subs : req[u].insertResult = "ok"})
    /\ Len(emails) = Cardinality({u \in Subs : req[u].notifyResult = "sent"})

MissingField(body) == \E f \in Fields : body[f] \in {Undefined, ""}

----------------------------------------------------------------------------
(* C1: when the Object Store put of a submission fails, the submission is
   answered with a non-2xx response, its insert and its notification are never
   called, and no row and no notification exist for it. *)
C1_PutFailureAborts ==
    /\ NoStrayRows
    /\ \A s \in Subs :
         req[s].putResult = "fail" =>
            /\ Failed(s)
            /\ req[s].insertCalls = 0
            /\ req[s].notifyCalls = 0
            /\ RowsOf(s) = {}
            /\ EmailsOf(s) = {}

\* a put has failed while another submission went through
C1_Witness ==
    \E s, u \in Subs :
        /\ req[s].putResult = "fail" /\ Done(s)
        /\ Succeeded(u)

(* C2: when the insert fails after the put succeeded, the response is non-2xx,
   the put was invoked exactly once, the stored object is still in the Object
   Store, and no notification is attempted or sent. *)
C2_InsertFailureKeepsObject ==
    /\ NoStrayRows
    /\ \A s \in Subs :
         (req[s].putResult = "ok" /\ req[s].insertResult = "fail") =>
            /\ Failed(s)
            /\ req[s].putCalls = 1
            /\ req[s].fileName \in DOMAIN objects
            /\ req[s].notifyCalls = 0
            /\ EmailsOf(s) = {}

C2_Witness ==
    \E s \in Subs :
        /\ req[s].putResult = "ok" /\ req[s].insertResult = "fail"
        /\ ~HasNull(req[s].body)
        /\ Done(s)

\* the response that the store and persist steps of submission s determine
ResponseOfPersist(s) ==
    [status |-> 200,
     body |-> [success |-> TRUE,
               data |-> [id |-> req[s].paymentId,
                         name |-> req[s].body.name,
                         phone_number |-> req[s].body.phone_number,
                         payment_method |-> req[s].body.payment_method,
                         reason |-> req[s].body.reason,
                         proof_url |-> req[s].fileUrl]]]

(* C3: once store and persist succeeded, the response is the same status and
   body whether the notification was sent, threw or returned an error value. *)
C3_NotifierFailureIsolated ==
    \A s \in Subs :
        (req[s].insertResult = "ok" /\ req[s].notifyResult # "none") =>
            req[s].res = <<ResponseOfPersist(s)>>

\* one notification was delivered and another one failed, both answered
C3_Witness ==
    \E s, u \in Subs :
        /\ req[s].notifyResult = "sent" /\ Done(s)
        /\ req[u].notifyResult \in {"throws", "error"} /\ Done(u)

(* C4: within a submission the insert is called only after its put succeeded,
   the notification only after its insert succeeded, each step is called at
   most once, and once a notification was started the response is sent only
   after it has ended; a success response implies all three steps ran. *)
C4_StrictOrder ==
    \A s \in Subs :
        /\ req[s].insertCalls > 0 => req[s].putResult = "ok"
        /\ req[s].notifyCalls > 0 => req[s].insertResult = "ok"
        /\ req[s].putCalls <= 1 /\ req[s].insertCalls <= 1 /\ req[s].notifyCalls <= 1
        /\ (req[s].notifyCalls > 0 /\ req[s].res # <<>>) => req[s].notifyResult # "none"
        /\ Succeeded(s) =>
              /\ req[s].putCalls = 1 /\ req[s].insertCalls = 1
              /\ req[s].notifyCalls = 1 /\ req[s].notifyResult # "none"

\* both submissions ran all three steps and were answered
C4_Witness == \A s \in Subs : Succeeded(s)

----------------------------------------------------------------------------
\* the bytes of submission s are nowhere in the Object Store
NoObjectOf(s) == \A k \in DOMAIN objects : objects[k] # s

(* C5: a submission in which one of name, phone_number, payment_method and
   reason is absent or empty is rejected with no Object Store put, no Record
   Store insert and no record created. *)
C5_MissingFieldRejectedFirst ==
    \A s \in Subs :
        (Arrived(s) /\ MissingField(req[s].body)) =>
            /\ req[s].putCalls = 0
            /\ req[s].insertCalls = 0
            /\ RowsOf(s) = {}
            /\ Done(s) => Failed(s)

(* C6: a submission whose file has a declared content type outside the image
   allow-list is rejected with no Object Store put and no Record Store
   insert. *)
C6_UnsupportedMediaTypeRejected ==
    \A s \in Subs :
        (Arrived(s) /\ req[s].file # <<>>
           /\ req[s].file[1].mimetype \notin {"image/jpeg", "image/png", "image/webp"}) =>
            /\ req[s].putCalls = 0
            /\ req[s].insertCalls = 0
            /\ Done(s) => Failed(s)

(* C7: a submission whose file is longer than 5 MiB is rejected: it gets no
   success response, no insert, no notification, and none of its bytes stay
   in the Object Store; a file of exactly 5*1024*1024 bytes is never answered
   with the size error. *)
C7_FileTooLargeRejected ==
    \A s \in Subs :
        (Arrived(s) /\ req[s].file # <<>>) =>
            /\ req[s].file[1].size > 5 * 1024 * 1024 =>
                  /\ req[s].pc \in {"put", "done"}
                  /\ Done(s) => Failed(s)
                  /\ req[s].insertCalls = 0
                  /\ req[s].notifyCalls = 0
                  /\ RowsOf(s) = {}
                  /\ NoObjectOf(s)
            /\ req[s].file[1].size = 5 * 1024 * 1024 =>
                  \A i \in DOMAIN req[s].res :
                      req[s].res[i].body # [error |-> "File too large"]

\* an oversized file was turned down and a file of exactly the limit succeeded
C7_Witness ==
    \E s, u \in Subs :
        /\ req[s].file # <<>> /\ req[s].file[1].size = 5 * 1024 * 1024 + 1 /\ Failed(s)
        /\ req[s].file[1].mimetype = "image/png"
        /\ req[u].file # <<>> /\ req[u].file[1].size = 5 * 1024 * 1024 /\ Succeeded(u)

(* C8: a submission without a file is answered with a non-2xx response and
   causes no put, no insert and no notification, whatever its text fields. *)
C8_NoFileRejected ==
    \A s \in Subs :
        (Arrived(s) /\ req[s].file = <<>>) =>
            /\ req[s].pc \in {"handler", "done"}
            /\ Done(s) => Failed(s)
            /\ req[s].putCalls = 0
            /\ req[s].insertCalls = 0
            /\ req[s].notifyCalls = 0
            /\ RowsOf(s) = {} /\ EmailsOf(s) = {} /\ NoObjectOf(s)

\* two file-less submissions were answered, one complete and one not
C8_Witness ==
    \E s, u \in Subs :
        /\ Done(s) /\ req[s].file = <<>> /\ req[s].body = CompleteBody
        /\ Done(u) /\ req[u].file = <<>> /\ MissingField(req[u].body)

----------------------------------------------------------------------------
\* the proof_url carried by the success response of submission s
ReturnedUrl(s) == req[s].res[1].body.data.proof_url

(* C9: after a success response, the returned proof_url resolves in the
   Object Store to exactly the bytes this submission uploaded, whatever other
   submissions do. *)
C9_ProofUrlResolvesToOwnBytes ==
    \A s \in Subs :
        Succeeded(s) =>
            /\ UrlKey(ReturnedUrl(s)) \in DOMAIN objects
            /\ objects[UrlKey(ReturnedUrl(s))] = req[s].file[1].buffer

\* the URL under which the variant publishes object key k
UrlOf(k) == IF IsPg THEN S3FileUrl(k) ELSE DiskProofUrl(k)

\* every row carries the URL of an object that is in the Object Store
NoDanglingReference ==
    \A i \in DOMAIN payments :
        \E k \in DOMAIN objects : payments[i].proof_url = UrlOf(k)

\* every successful submission has exactly one row, the one it inserted
OneRowPerSuccess ==
    \A s \in Subs :
        Succeeded(s) =>
            /\ req[s].insertCalls = 1
            /\ Cardinality(RowsOf(s)) = 1
            /\ \A i \in RowsOf(s) : payments[i].proof_url = req[s].fileUrl

\* a step keeps every existing row as it is
RowsKept ==
    /\ Len(payments') >= Len(payments)
    /\ \A i \in DOMAIN payments : payments'[i] = payments[i]

(* C10: always, every row of payments has as proof_url the URL of an object
   key that is present in the Object Store, every successful submission has
   created exactly one row, and no step updates or deletes a row. *)
C10_RowsReferenceStoredObjects ==
    /\ [](NoDanglingReference /\ OneRowPerSuccess /\ NoStrayRows)
    /\ [][RowsKept]_vars

\* two rows exist, each from a successful submission
C10_Witness ==
    /\ Len(payments) = NSub
    /\ \A s \in Subs : Succeeded(s)

----------------------------------------------------------------------------
\* the data of the success response of submission s
ResponseData(s) == req[s].res[1].body.data

\* record a holds exactly the columns cols, with the values row has for them
SameOn(a, row, cols) ==
    /\ DOMAIN a = cols
    /\ \A f \in cols : a[f] = row[f]

(* C11, as stated: the data of every success response is the complete row
   the submission persisted: id, created_at, name, phone_number,
   payment_method, reason and proof_url, each with the stored value. *)
C11_ResponseIsCompleteRecord ==
    \A s \in Subs :
        Succeeded(s) =>
            /\ RowsOf(s) # {}
            /\ \A i \in RowsOf(s) :
                  SameOn(ResponseData(s), payments[i], DOMAIN payments[i])

(* C11, amended: the data of every success response holds the id, name,
   phone_number, payment_method, reason and proof_url of the row the
   submission persisted, each with the stored value, and nothing else: the
   store-assigned created_at is not part of it. *)
C11_ResponseIsRecordWithoutCreatedAt ==
    \A s \in Subs :
        Succeeded(s) =>
            /\ RowsOf(s) # {}
            /\ \A i \in RowsOf(s) :
                  SameOn(ResponseData(s), payments[i],
                         DOMAIN payments[i] \ {"created_at"})

\* a submission succeeded and its row was stamped after the clock had advanced
C11_Witness ==
    \E s \in Subs :
        /\ Succeeded(s)
        /\ \E i \in RowsOf(s) : payments[i].created_at = MaxTime

----------------------------------------------------------------------------
\* ids grow along the insertion order of the table, hence are unique
IdsIncrease ==
    \A i, j \in DOMAIN payments : i < j => payments[i].id < payments[j].id

\* the step in which the insert of submission s succeeds
InsertSucceeds(s) == req[s].insertResult = "none" /\ req'[s].insertResult = "ok"

\* the id handed to a handler is the id of the row its own insert appended
OwnIdStep ==
    \A s \in Subs :
        InsertSucceeds(s) =>
            /\ Len(payments') = Len(payments) + 1
            /\ payments'[Len(payments')] = NewRow(req[s], req'[s].paymentId, now')
            /\ \A i \in DOMAIN payments : payments[i].id # req'[s].paymentId

\* a success response carries the id its handler was handed, and one row has it
ResponseCarriesOwnId ==
    \A s \in Subs :
        Succeeded(s) =>
            /\ req[s].insertResult = "ok"
            /\ ResponseData(s).id = req[s].paymentId
            /\ Cardinality(RowsOf(s)) = 1

\* GET /api/payments has answered in this step, successfully
Listed == listing' # listing /\ listing'[1].status = 200

\* the records of the listing just answered that carry id
ListedWithId(id) ==
    {k \in DOMAIN listing'[1].body.data : listing'[1].body.data[k].id = id}

\* a listing taken after a success response holds exactly one record with its id
ListedOnce ==
    Listed =>
        \A s \in Subs :
            Succeeded(s) => Cardinality(ListedWithId(ResponseData(s).id)) = 1

(* C12: ids are unique and strictly increasing in insertion order; the id in
   each success response is the id of the row that this same submission
   inserted; and every GET /api/payments answered after a success response
   contains exactly one record with that response's id. *)
C12_OwnUniqueIncreasingIds ==
    /\ [](IdsIncrease /\ ResponseCarriesOwnId)
    /\ [][OwnIdStep /\ ListedOnce]_vars

\* both submissions succeeded and a listing taken afterwards holds both ids
C12_Witness ==
    /\ \A s \in Subs : Succeeded(s)
    /\ listing # <<>>
    /\ listing[1].status = 200
    /\ {listing[1].body.data[k].id : k \in DOMAIN listing[1].body.data}
         = {ResponseData(s).id : s \in Subs}
    /\ Len(listing[1].body.data) = NSub

----------------------------------------------------------------------------
\* the latest GET /api/payments was answered with a list of records
HasListing == listing # <<>> /\ listing[1].status = 200

ListedData == listing[1].body.data

(* C13, as stated: the records of every listing are in strictly descending
   created_at order: each record's created_at is strictly greater than that
   of the record after it, also when insertions received equal created_at. *)
C13_ListingStrictlyDescending ==
    HasListing =>
        \A k \in 1..(Len(ListedData) - 1) :
            ListedData[k].created_at > ListedData[k + 1].created_at

(* C13, amended: the records of every listing are in non-increasing
   created_at order: each record's created_at is greater than or equal to
   that of the record after it (records inserted with equal created_at are
   adjacent, in an order the store chooses). *)
C13_ListingNonIncreasing ==
    HasListing =>
        \A k \in 1..(Len(ListedData) - 1) :
            ListedData[k].created_at >= ListedData[k + 1].created_at

\* a listing of two records with equal created_at, the later insert first
C13_Witness ==
    /\ HasListing
    /\ Len(ListedData) = 2
    /\ ListedData[1].created_at = ListedData[2].created_at
    /\ ListedData[1].id > ListedData[2].id

----------------------------------------------------------------------------
\* GET /api/payments has answered in this step
Answered == listing' # listing

\* the listing just answered holds every row of the table, each once
ListsEveryRow ==
    Listed =>
        LET data == listing'[1].body.data IN
        /\ Len(data) = Len(payments)
        /\ \A i \in DOMAIN payments : \E k \in DOMAIN data : data[k] = payments[i]

\* answering a listing changes neither store, nor anything else
ListingReadsOnly ==
    Answered => UNCHANGED <<payments, nextId, objects, emails, req>>

\* a listing whose query failed is answered non-2xx and carries no data
FailedListingHasNoData ==
    (Answered /\ ~Listed) =>
        /\ ~Is2xx(listing'[1].status)
        /\ "data" \notin DOMAIN listing'[1].body

(* C14: every GET /api/payments that succeeds returns every row currently in
   the Record Store; answering it leaves the Record Store and the Object
   Store unchanged; and when the query fails the answer is non-2xx and
   carries no data. *)
C14_ListingCompleteAndReadOnly ==
    [][ListsEveryRow /\ ListingReadsOnly /\ FailedListingHasNoData]_vars

\* a listing of two records with different created_at was answered while the
\* table held two rows
C14_Witness ==
    /\ HasListing
    /\ Len(ListedData) = NSub
    /\ Len(payments) = NSub
    /\ ListedData[1].created_at > ListedData[2].created_at

----------------------------------------------------------------------------
\* submission s has been given an object key and is still being handled
InFlightWithKey(s) == req[s].fileName # <<>> /\ ~Done(s)

\* two different submissions handled at the same time, with identical
\* original file names
ConcurrentSameName(s, u) ==
    /\ s # u
    /\ InFlightWithKey(s) /\ InFlightWithKey(u)
    /\ req[s].file[1].originalname = req[u].file[1].originalname

(* C15, as stated: any two submissions handled concurrently with identical
   original file names have two distinct object keys. *)
C15_ConcurrentKeysDistinct ==
    \A s, u \in Subs :
        ConcurrentSameName(s, u) => req[s].fileName # req[u].fileName

(* C15, amended: two submissions handled concurrently with identical
   original file names have the same object key exactly when they read the
   same millisecond and drew the same random token; in every other case,
   the same millisecond with different tokens included, their keys are
   distinct. *)
C15_KeysDistinctUnlessSameTimeAndToken ==
    \A s, u \in Subs :
        ConcurrentSameName(s, u) =>
            (req[s].fileName = req[u].fileName
                <=> /\ req[s].keyTime = req[u].keyTime
                    /\ req[s].keyToken = req[u].keyToken)

\* two submissions of the same file name are in flight with keys made in the
\* same millisecond from different tokens
C15_Witness ==
    \E s, u \in Subs :
        /\ ConcurrentSameName(s, u)
        /\ req[s].keyTime = req[u].keyTime
        /\ req[s].keyToken # req[u].keyToken
        /\ req[s].fileName # req[u].fileName

----------------------------------------------------------------------------
\* the catch block of connectDb runs in this step: an attempt has failed
AttemptFails == dbConnectionRetries' = dbConnectionRetries + 1

\* an attempt is in progress
Attempting == connectPc \in {"connecting", "creating"}

\* never more than 5 attempts; the attempt in progress is the one after the
\* failures counted so far; while no attempt is in progress and the routine
\* has not ended, exactly one timer of 5000 ms is pending, else none
AttemptsBounded ==
    /\ attempts <= 5
    /\ Attempting => attempts = dbConnectionRetries + 1
    /\ timers = IF connectPc = "waiting" THEN <<5000>> ELSE <<>>

\* after a failure short of the 5th exactly one further attempt is scheduled
RetryScheduled ==
    (AttemptFails /\ dbConnectionRetries' < 5) =>
        /\ connectPc' = "waiting"
        /\ timers' = <<5000>>
        /\ attempts' = attempts

\* after the 5th consecutive failure the process is terminated, nothing is
\* scheduled
FifthFailureExits ==
    (AttemptFails /\ dbConnectionRetries' >= 5) =>
        /\ dbConnectionRetries' = 5
        /\ attempts = 5
        /\ connectPc' = "exited"
        /\ timers' = <<>>

\* an attempt starts only when a timer fires, and one timer starts one attempt
AttemptPerTimer ==
    attempts' # attempts =>
        /\ attempts' = attempts + 1
        /\ timers = <<5000>> /\ timers' = <<>>
        /\ connectPc = "waiting" /\ connectPc' = "connecting"

\* nothing happens in a terminated process
ExitIsFinal == connectPc # "exited"

\* the routine has ended: the store is connected or the process terminated
ConnectDbEnded == connectPc \in {"ready", "exited"}

(* C16: connectDb makes at most 5 connection attempts, each but the first
   started by a timer of the fixed delay 5000 ms; after each failure short
   of the 5th exactly one further attempt is scheduled; after the 5th
   consecutive failure the process is terminated and no 6th attempt is made;
   and, db.connect(), the CREATE TABLE query and the timer being fair, the
   routine eventually yields a connected store or terminates the process. *)
C16_BoundedRetryThenExit ==
    /\ []AttemptsBounded
    /\ [][RetryScheduled /\ FifthFailureExits /\ AttemptPerTimer /\ ExitIsFinal]_vars
    /\ <>ConnectDbEnded

\* the 5th attempt has failed and the process is terminated
C16_Witness ==
    /\ connectPc = "exited"
    /\ attempts = 5
    /\ dbConnectionRetries = 5

----------------------------------------------------------------------------
\* name n holds no "."
Dotless(n) == \A i \in DOMAIN n : n[i] # "."

\* e is what follows the last "." of n
AfterLastDot(e, n) ==
    \E i \in DOMAIN n :
        /\ n[i] = "."
        /\ e = SubSeq(n, i + 1, Len(n))
        /\ Dotless(e)

\* the lower-case form of a character, of a sequence of characters
ToLower(c) == IF c = "P" THEN "p" ELSE c

LowerCase(e) == [i \in DOMAIN e |-> ToLower(e[i])]

\* submission s has been given an object key
HasKey(s) == req[s].fileName # <<>>

OrigName(s) == req[s].file[1].originalname

\* 'proof_' + time in milliseconds + '_' + token + '.'
UnderscoreStem(s) ==
    <<"proof_", ToString(req[s].keyTime), "_", ToString(req[s].keyToken), ".">>

(* C17, as stated: every object key is 'proof_' + the time in milliseconds +
   '_' + a random token + '.' + the lower-cased extension of the original
   file name, the extension being empty when the name holds no '.'. *)
C17_KeyHasLowercaseExtension ==
    \A s \in Subs :
        HasKey(s) =>
            \E e \in {SubSeq(OrigName(s), i, Len(OrigName(s))) :
                        i \in 1..(Len(OrigName(s)) + 1)} :
                /\ IF Dotless(OrigName(s)) THEN e = <<>>
                   ELSE AfterLastDot(e, OrigName(s))
                /\ req[s].fileName = UnderscoreStem(s) \o LowerCase(e)

(* C17, amended: in the S3 variants the object key is 'proof_' + the time in
   milliseconds + '_' + a random token + '.' + what follows the last '.' of
   the original file name, in its original case, which is the whole file
   name when it holds no '.'. In the disk variant the key is 'proof_' + the
   time in milliseconds + '-' + a random integer + the extension of the
   original file name with its leading '.', in its original case, which is
   empty when the name holds no '.'. *)
C17_KeyKeepsCaseAndDotlessName ==
    \A s \in Subs :
        HasKey(s) =>
            \E e \in {SubSeq(OrigName(s), i, Len(OrigName(s))) :
                        i \in 1..(Len(OrigName(s)) + 1)} :
                /\ IF Dotless(OrigName(s)) THEN e = OrigName(s)
                   ELSE AfterLastDot(e, OrigName(s))
                /\ req[s].fileName =
                     IF IsPg THEN UnderscoreStem(s) \o e
                     ELSE <<"proof_", ToString(req[s].keyTime), "-",
                            ToString(req[s].keyToken)>>
                          \o (IF Dotless(OrigName(s)) THEN <<>> ELSE <<".">> \o e)

\* an S3 variant has made the key of a file whose name holds no ".", and the
\* key of a file with an upper-case extension
C17_Witness ==
    /\ IsPg
    /\ \E s, u \in Subs :
          /\ HasKey(s) /\ OrigName(s) = <<"a">>
          /\ req[s].fileName = <<"proof_", "1", "_", "1", ".", "a">>
          /\ HasKey(u) /\ OrigName(u) = <<"a", ".", "P">>
          /\ req[u].fileName = <<"proof_", "0", "_", "0", ".", "P">>

----------------------------------------------------------------------------
\* a success response carries what its own request sent, the URL of the key
\* made for its own file, and the id of the row holding exactly these values
CarriesOwnData(s) ==
    LET r == req[s] IN
    /\ ResponseData(s) =
         [id |-> r.paymentId, name |-> r.body.name,
          phone_number |-> r.body.phone_number,
          payment_method |-> r.body.payment_method,
          reason |-> r.body.reason, proof_url |-> r.fileUrl]
    /\ r.fileUrl = UrlOf(r.fileName)
    /\ \E i \in DOMAIN payments :
          /\ payments[i] = NewRow(r, r.paymentId, payments[i].created_at)
          /\ \A j \in DOMAIN payments : payments[j].id = r.paymentId => j = i

\* submission s is answered with a failure in this step
FailsNow(s) ==
    /\ ~Done(s)
    /\ req'[s].pc = "done"
    /\ ~Is2xx(req'[s].res[Len(req'[s].res)].status)

\* the step in which a submission fails touches nothing but that submission
FailureIsLocal ==
    \A s \in Subs :
        FailsNow(s) =>
            /\ \A u \in Subs \ {s} : req'[u] = req[u]
            /\ UNCHANGED <<objects, payments, emails>>

\* what a request sent, its key, its URL and its id stay what they are, and a
\* step advances one submission only
LocalsKept ==
    \A s \in Subs :
        /\ Arrived(s) => req'[s].body = req[s].body /\ req'[s].file = req[s].file
        /\ req[s].fileName # <<>> => req'[s].fileName = req[s].fileName
        /\ req[s].fileUrl # <<>> => req'[s].fileUrl = req[s].fileUrl
        /\ req[s].paymentId # 0 => req'[s].paymentId = req[s].paymentId
        /\ req'[s] # req[s] => \A u \in Subs \ {s} : req'[u] = req[u]

(* C18: in every interleaving of the submissions each success response
   carries the name, phone_number, payment_method, reason, proof_url and id
   of its own submission only; a handler's request values, key, URL and id
   are never changed by another submission; and the step in which a
   submission fails changes neither another submission's state or response
   nor any stored object, row or notification. *)
C18_InterleavingsIsolated ==
    /\ [](\A s \in Subs : Succeeded(s) => CarriesOwnData(s))
    /\ [][FailureIsLocal /\ LocalsKept]_vars

\* one submission succeeded with its own values although the other, which
\* sent something else and was in flight at the same time, failed after it
\* had stored its object
C18_Witness ==
    \E s, u \in Subs :
        /\ Succeeded(s) /\ CarriesOwnData(s)
        /\ Failed(u) /\ req[u].putResult = "ok" /\ req[u].insertResult = "fail"
        /\ req[u].body # req[s].body
        /\ req[u].paymentId = 0
        /\ \E k \in DOMAIN objects : objects[k] = s

----------------------------------------------------------------------------
\* the number of HTTP responses sent for submission s
Responses(s) == Len(req[s].res)

\* never two responses; a handler that has ended has answered
AtMostOneResponse ==
    \A s \in Subs :
        /\ Responses(s) <= 1
        /\ Done(s) => Responses(s) = 1

\* a response, once sent, stays the response
ResponseKept ==
    \A s \in Subs : Responses(s) = 1 => req'[s].res = req[s].res

(* C19: for every request to POST /api/upload-payment, whichever path it
   takes, and given that every call the handler awaits returns, exactly one
   HTTP response is eventually sent: at no time have two been sent, a sent
   response is never replaced, and a request that has arrived is eventually
   answered. *)
C19_ExactlyOneResponse ==
    /\ []AtMostOneResponse
    /\ [][ResponseKept]_vars
    /\ \A s \in Subs : Arrived(s) ~> (Responses(s) = 1)

\* one request was answered 400 for its missing file, the other was answered
\* 200 although its notification failed
C19_Witness ==
    \E s, u \in Subs :
        /\ Responses(s) = 1 /\ req[s].res[1].status = 400
        /\ Responses(u) = 1 /\ req[u].res[1].status = 200
        /\ req[u].notifyResult = "throws"

----------------------------------------------------------------------------
\* notification e tells what row says
TellsRow(e, row) ==
    /\ e.id = row.id
    /\ e.name = row.name
    /\ e.phone_number = row.phone_number
    /\ e.payment_method = row.payment_method
    /\ e.reason = row.reason
    /\ e.proofUrl = row.proof_url

\* a submission asks the notifier at most once, and only with a row inserted;
\* the notifications delivered are one per submission whose send succeeded,
\* each telling the row of the id it carries
NotificationsMatchRows ==
    /\ \A s \in Subs :
          /\ req[s].notifyCalls <= 1
          /\ req[s].notifyCalls = 1 =>
                /\ req[s].insertResult = "ok"
                /\ Cardinality(RowsOf(s)) = 1
          /\ Cardinality(EmailsOf(s)) <= 1
          /\ req[s].notifyResult = "sent" <=>
                (req[s].paymentId # 0 /\ Cardinality(EmailsOf(s)) = 1)
    /\ \A k \in DOMAIN emails :
          \E i \in DOMAIN payments : TellsRow(emails[k], payments[i])

\* a notification is delivered only for a row that is already stored, one at
\* a time, and stays as delivered
NotifiedAfterInsert ==
    emails' # emails =>
        /\ Len(emails') = Len(emails) + 1
        /\ SubSeq(emails', 1, Len(emails)) = emails
        /\ \E i \in DOMAIN payments : TellsRow(emails'[Len(emails')], payments[i])

(* C20: per submission at most one notification is sent; it is sent only
   after that submission's insert succeeded; and it carries the id returned
   by that insert together with the name, phone_number, payment_method,
   reason and proof URL that were persisted in the row of that id. *)
C20_OneNotificationOfOwnRow ==
    /\ []NotificationsMatchRows
    /\ [][NotifiedAfterInsert]_vars

\* both submissions were notified, with different ids
C20_Witness ==
    /\ Len(emails) = NSub
    /\ \A s \in Subs : req[s].notifyResult = "sent" /\ Cardinality(EmailsOf(s)) = 1
    /\ emails[1].id # emails[2].id

----------------------------------------------------------------------------
\* the connection attempts in progress
InProgress == IF Attempting THEN 1 ELSE 0

\* the counter stays within 0..5, and there is never more than one of: an
\* attempt in progress, a pending retry timer
CounterAndAttemptsBounded ==
    /\ dbConnectionRetries \in 0..5
    /\ InProgress + Len(timers) <= 1

\* connect and CREATE TABLE have both succeeded in this step
ConnectSucceeds == connectPc = "creating" /\ connectPc' = "ready"

\* a success resets the counter and schedules nothing; once connected, the
\* routine is never entered again and the counter stays 0
SuccessResetsAndEnds ==
    /\ ConnectSucceeds =>
          /\ dbConnectionRetries' = 0
          /\ timers' = <<>>
          /\ attempts' = attempts
    /\ connectPc = "ready" =>
          /\ dbConnectionRetries = 0
          /\ UNCHANGED <<dbConnectionRetries, connectPc, attempts, timers>>

\* a step of a handler of POST /api/upload-payment or GET /api/payments
HttpStep == req' # req \/ listing' # listing

\* handling a request starts no attempt, sets no timer, leaves the counter
HttpLeavesStartupAlone ==
    HttpStep => UNCHANGED <<dbConnectionRetries, connectPc, attempts, timers>>

(* C21: throughout startup dbConnectionRetries stays within 0..5; at any
   time at most one connection attempt is in progress or one retry timer is
   pending, never both; a successful connect-and-create-table resets the
   counter to 0 and schedules no further attempt; and no step of an HTTP
   handler starts a connection attempt, sets a timer or changes the
   counter. *)
C21_StartupCounterAndSingleAttempt ==
    /\ []CounterAndAttemptsBounded
    /\ [][SuccessResetsAndEnds /\ HttpLeavesStartupAlone]_vars

\* the store was connected at the 5th attempt and the counter is back at 0;
\* meanwhile one request failed at its insert and another succeeded
C21_Witness ==
    /\ connectPc = "ready"
    /\ attempts = 5
    /\ dbConnectionRetries = 0
    /\ \E s, u \in Subs :
          /\ Failed(s) /\ req[s].insertResult = "fail"
          /\ Succeeded(u)

====
